---- MODULE Spec2Model ----
(***************************************************************************)
(* Model of ocrmypdf-paddleocr: the process-wide PaddleOCR engine cache,   *)
(* the predict retry policy of PaddleOcrEngine.generate_ocr, the assembly  *)
(* of the page -> line -> word tree, get_orientation and check_options.    *)
(*                                                                         *)
(* The native engine is a black box: every call into it (the PaddleOCR     *)
(* constructor, engine.predict, clf.predict) is a state of the calling     *)
(* worker, left by one action per outcome (it returns, or it raises).      *)
(***************************************************************************)
EXTENDS Integers, Sequences, FiniteSets, TLC

\* ------------------------------------------------------------------ bounds
MaxJobs == 2        \* largest concurrency level the host configures
MaxEngines == 3     \* PaddleOCR constructor calls explored in one run
MaxLines == 2       \* recognized lines in one predict result
ScoreSteps == 4     \* scores are k / ScoreSteps for k in 0..ScoreSteps
MaxPolys == 3       \* detection polygons in one predict result

None == "None"
Workers == 1 .. MaxJobs

\* An engine handle is the instance PaddleOCR(lang=...) returned: its identity
\* and the language it was constructed with. NoEngine is Python's None.
NoEngine == [id |-> 0, lang |-> None]

\* ------------------------------------------------------------ lang_map.py
\* The entries of _LANG_MAP the model's language options exercise.
LANG_MAP == [l \in {"eng", "kor", "chi_sim"} |->
               CASE l = "eng" -> "en"
                 [] l = "kor" -> "korean"
                 [] l = "chi_sim" -> "ch"]

\* _LANG_MAP.get(lang, lang)
tesseract_to_paddle(lang) == IF lang \in DOMAIN LANG_MAP THEN LANG_MAP[lang] ELSE lang

\* Values of options.languages: absent, a mapped code, an unmapped code that
\* passes through to the same engine code, and another language.
LangOptions == {<<>>, <<"eng">>, <<"en">>, <<"kor", "eng">>}

\* Values of OMP_THREAD_LIMIT in os.environ (None: not set).
EnvValues == {None, "1", "4"}

\* ------------------------------------------------------------------ state
VARIABLES
    jobs,           \* options.jobs
    checked,        \* check_options has run
    environ,        \* os.environ.get('OMP_THREAD_LIMIT')
    paddle_engine,  \* _paddle_engine: None or an engine instance
    paddle_lang,    \* _paddle_lang: None or a PaddleOCR language code
    constructions,  \* PaddleOCR(...) constructor calls made so far
    pc,             \* per worker: where it stands in its call
    op,             \* per worker: the operation it runs
    languages,      \* per worker: options.languages of its call
    engine,         \* per worker: the local variable engine
    saved,          \* per worker: the local saved of _create_paddle_engine
    stage,          \* per worker: which predict call of generate_ocr is current
    calls,          \* per worker: predict invocations of this call, with outcome
    nreset,         \* per worker: _reset_paddle_engine calls of this call
    nacquire,       \* per worker: _get_paddle_engine calls of this call
    ncreate,        \* per worker: _create_paddle_engine calls of this call
    exc,            \* per worker: exception the call ended with (None: none)
    result,         \* per worker: header of the predict result being assembled
    idx,            \* per worker: lines of the result consumed by the loop
    cur,            \* per worker: the line the loop processed last
    page,           \* per worker: the PAGE element under construction
    text_parts,     \* per worker: text_parts
    attached,       \* per worker: indices of the result's lines attached to page
    ret             \* per worker: the value the call returned

vars == <<jobs, checked, environ, paddle_engine, paddle_lang, constructions,
          pc, op, languages, engine, saved, stage, calls, nreset, nacquire,
          ncreate, exc, result, idx, cur, page, text_parts, attached, ret>>

cacheVars == <<paddle_engine, paddle_lang, constructions>>
hostVars == <<jobs, checked>>
countVars == <<nreset, nacquire, ncreate>>
asmVars == <<result, idx, cur, page, text_parts, attached>>
workerVars == <<pc, op, languages, engine, saved, stage, calls, countVars, exc,
                asmVars, ret>>

\* ------------------------------------------------------- pure functions
RECURSIVE SetMin(_)
SetMin(S) == LET x == CHOOSE x \in S : TRUE
             IN  IF S = {x} THEN x
                 ELSE LET m == SetMin(S \ {x}) IN IF x < m THEN x ELSE m

RECURSIVE SetMax(_)
SetMax(S) == LET x == CHOOSE x \in S : TRUE
             IN  IF S = {x} THEN x
                 ELSE LET m == SetMax(S \ {x}) IN IF x > m THEN x ELSE m

\* BoundingBox(left=, top=, right=, bottom=); NoBBox is Python's None.
BoundingBox(l, t, r, b) == [left |-> l, top |-> t, right |-> r, bottom |-> b]
NoBBox == [none |-> TRUE]

\* The degeneracy test shared by _quad_to_bbox (line 77) and the line box
\* (line 212): right <= left or bottom <= top.
\* (variant with strict comparisons: a box of zero extent passes)
degenerate_drop_equal(l, t, r, b) == r < l \/ b < t
degenerate(l, t, r, b) == r <= l \/ b <= t

\* _quad_to_bbox: min/max of the points' coordinates; None when degenerate.
quad_to_bbox(quad) ==
    LET xs == {quad[k][1] : k \in 1 .. Len(quad)}
        ys == {quad[k][2] : k \in 1 .. Len(quad)}
        left == SetMin(xs)
        right == SetMax(xs)
        top == SetMin(ys)
        bottom == SetMax(ys)
    IN  IF degenerate(left, top, right, bottom) THEN NoBBox
        ELSE BoundingBox(left, top, right, bottom)

\* generate_ocr lines 211-215: box = [x1, y1, x2, y2]; the line is skipped
\* (None here) when x2 <= x1 or y2 <= y1.
line_bbox_of(box) ==
    IF degenerate(box[1], box[2], box[3], box[4]) THEN NoBBox
    ELSE BoundingBox(box[1], box[2], box[3], box[4])

\* str.isspace on one character.
IsSpace(c) == c \in {" ", "\t", "\n"}

\* str.strip(): a text is a sequence of characters.
RECURSIVE lstrip(_)
lstrip(s) == IF s # <<>> /\ IsSpace(Head(s)) THEN lstrip(Tail(s)) ELSE s

RECURSIVE rstrip(_)
rstrip(s) == IF s # <<>> /\ IsSpace(s[Len(s)])
             THEN rstrip(SubSeq(s, 1, Len(s) - 1)) ELSE s

strip(s) == rstrip(lstrip(s))

\* '\n'.join(parts)
RECURSIVE join_lines(_)
join_lines(parts) ==
    IF parts = <<>> THEN <<>>
    ELSE IF Len(parts) = 1 THEN parts[1]
    ELSE parts[1] \o <<"\n">> \o join_lines(Tail(parts))

\* OcrElement(ocr_class=WORD, bbox=, text=, confidence=float(score))
Word(bbox, text, score) ==
    [ocr_class |-> "WORD", bbox |-> bbox, text |-> text, confidence |-> score]

\* The token a WORD carries (line 221: token = str(token).strip()).
\* (variant: the token as the engine gave it)
word_token_raw(token) == token
word_token(token) == strip(token)

\* Lines 220-233: one WORD per (token, quad) pair of zip(text_words[i],
\* text_word_regions[i]) whose stripped token is non-empty and whose quad is
\* not degenerate.
RECURSIVE word_box_words(_, _, _)
word_box_words(tokens, quads, score) ==
    IF tokens = <<>> \/ quads = <<>> THEN <<>>
    ELSE LET token == word_token(Head(tokens))
             word_bbox == quad_to_bbox(Head(quads))
             rest == word_box_words(Tail(tokens), Tail(quads), score)
         IN  IF strip(Head(tokens)) = <<>> THEN rest
             ELSE IF word_bbox = NoBBox THEN rest
             ELSE <<Word(word_bbox, token, score)>> \o rest

\* Line 204: has_word_boxes = bool(text_words and text_word_regions), from the
\* lengths of the two outer lists.
has_word_boxes(wlen, rlen) == wlen > 0 /\ rlen > 0

\* Lines 218-242: the children of the LINE built for line i (1-based) of the
\* result: word-level boxes when present for this line, else the whole line
\* as a single word.
line_children(hwb, i, wlen, text, score, line_bbox, tokens, quads) ==
    IF hwb /\ i <= wlen /\ tokens # <<>>
    THEN word_box_words(tokens, quads, score)
    ELSE <<Word(line_bbox, text, score)>>

\* Line 244: if line.children
\* (variant: every LINE is attached)
attach_always(children) == TRUE
attach(children) == children # <<>>

\* int(label): a label is a sequence of decimal digits.
Digit(c) == CASE c = "0" -> 0 [] c = "1" -> 1 [] c = "2" -> 2 [] c = "3" -> 3
              [] c = "4" -> 4 [] c = "5" -> 5 [] c = "6" -> 6 [] c = "7" -> 7
              [] c = "8" -> 8 [] c = "9" -> 9

RECURSIVE parse_int(_)
parse_int(s) == IF s = <<>> THEN 0
                ELSE parse_int(SubSeq(s, 1, Len(s) - 1)) * 10 + Digit(s[Len(s)])

\* get_orientation line 117: confidence = score * 15.0 (in units of
\* 1 / ScoreSteps, like the score).
ConfidenceScale == 15
\* (variant: a percentage)
confidence_percent(score) == score * 100
confidence_of(score) == score * ConfidenceScale

\* check_options: if options.jobs != 1: options.jobs = 1
\* (variant: the configured level is kept)
check_options_keep(j) == j
check_options(j) == IF j # 1 THEN 1 ELSE j

\* _get_paddle_engine line 53
requested_lang(langs) == IF langs # <<>> THEN tesseract_to_paddle(langs[1]) ELSE "en"

\* _get_paddle_engine line 55: the cached engine is reused
\* (variant: the language is not compared)
cache_hit_any_lang(pe, pl, lang) == pe # NoEngine
cache_hit(pe, pl, lang) == pe # NoEngine /\ pl = lang

\* generate_ocr lines 178-183: the two handlers guard the first predict only.
\* (variant: the handlers guard every predict)
caught_every_time(st, kind) == kind \in {"KeyError", "RuntimeError"}
\* (variant: the RuntimeError handler guards the KeyError handler's predict too)
caught_in_handler(st, kind) ==
    \/ st = "first" /\ kind \in {"KeyError", "RuntimeError"}
    \/ st = "plain" /\ kind = "RuntimeError"
caught(st, kind) == st = "first" /\ kind \in {"KeyError", "RuntimeError"}

\* Line 187: only the RuntimeError handler calls _reset_paddle_engine.
\* (variant: every handler resets the cache)
invalidates_on_any(kind) == TRUE
invalidates(kind) == kind = "RuntimeError"

\* ---------------------------------------------------- get_deskew, pure
\* Angles are held in half degrees, so that the mean of two of them is exact.
HalfDeg(d) == d + d

abs(x) == IF x < 0 THEN -x ELSE x

\* math.degrees(math.atan2(dy, dx)) on the directions the model's polygons
\* have: the multiples of 45 degrees, and the slope 567 / 100, whose angle of
\* 79.998 degrees is taken as 80.
atan2_degrees(dy, dx) ==
    CASE dy = 0 /\ dx > 0 -> HalfDeg(0)
      [] dy = 0 /\ dx < 0 -> HalfDeg(180)
      [] dx = 0 /\ dy > 0 -> HalfDeg(90)
      [] dx = 0 /\ dy < 0 -> HalfDeg(-90)
      [] dx > 0 /\ dy = dx -> HalfDeg(45)
      [] dx > 0 /\ dy = -dx -> HalfDeg(-45)
      [] dx < 0 /\ dy = -dx -> HalfDeg(135)
      [] dx < 0 /\ dy = dx -> HalfDeg(-135)
      [] dx > 0 /\ dy * 100 = dx * 567 -> HalfDeg(80)

\* Line 139: the top edge is skipped when abs(dx) < 1.
edge_too_short(dx) == abs(dx) < 1

\* Lines 132-141: the angles of the top edges poly[0] -> poly[1], in the
\* order of dt_polys, of the polygons with two vertices or more whose top
\* edge is not too short.
RECURSIVE top_edge_angles(_)
top_edge_angles(dt_polys) ==
    IF dt_polys = <<>> THEN <<>>
    ELSE LET poly == Head(dt_polys)
             rest == top_edge_angles(Tail(dt_polys))
         IN  IF Len(poly) < 2 THEN rest
             ELSE LET dx == poly[2][1] - poly[1][1]
                      dy == poly[2][2] - poly[1][2]
                  IN  IF edge_too_short(dx) THEN rest
                      ELSE <<atan2_degrees(dy, dx)>> \o rest

\* list.sort(), ascending.
RECURSIVE insert_sorted(_, _)
insert_sorted(x, sorted) ==
    IF sorted = <<>> THEN <<x>>
    ELSE IF x <= Head(sorted) THEN <<x>> \o sorted
    ELSE <<Head(sorted)>> \o insert_sorted(x, Tail(sorted))

RECURSIVE sort_list(_)
sort_list(angles) ==
    IF angles = <<>> THEN <<>>
    ELSE insert_sorted(Head(angles), sort_list(Tail(angles)))

\* Line 147: angles.sort().
\* (variant: the list is left in its order)
sort_angles_skipped(angles) == angles
sort_angles(angles) == sort_list(angles)

\* Lines 147-151: the median of the sorted angles; mid = len(angles) // 2 is
\* a 0-based index, so angles[mid] is element mid + 1 here.
median_of_sorted(angles) ==
    LET mid == Len(angles) \div 2
    IN  IF Len(angles) % 2 = 0
        THEN (angles[mid] + angles[mid + 1]) \div 2
        ELSE angles[mid + 1]

\* Lines 124-151: what get_deskew returns for a predict result. kind tells
\* whether result and result[0] are non-empty; dt_polys is
\* result[0].get('dt_polys', []).
deskew_of(res) ==
    IF res.kind # "data" THEN HalfDeg(0)
    ELSE IF res.dt_polys = <<>> THEN HalfDeg(0)
    ELSE LET angles == top_edge_angles(res.dt_polys)
         IN  IF angles = <<>> THEN HalfDeg(0)
             ELSE median_of_sorted(sort_angles(angles))

\* ------------------------------------------------------- engine outputs
\* What the black-box engine may return. A text is a sequence of characters,
\* a line score is in units of 1 / ScoreSteps, coordinates are pixels.
Texts == {<<" ">>, <<"a">>, <<"b", " ">>}
Scores == {1, ScoreSteps}
Boxes == {<<1, 1, 4, 2>>,      \* a proper box
          <<2, 1, 2, 3>>,      \* zero width
          <<0, 3, 4, 1>>}      \* negative height

QuadRotated == <<<<1, 0>>, <<2, 1>>, <<1, 2>>, <<0, 1>>>>
QuadUnordered == <<<<5, 2>>, <<3, 2>>, <<3, 1>>, <<5, 1>>>>
QuadFlat == <<<<0, 1>>, <<2, 1>>, <<2, 1>>, <<0, 1>>>>

\* (token, quad) pairs of the word-level detail: a blank token, two proper
\* words (one with surrounding spaces), and a word on a zero-height quad.
WordCases == {[token |-> <<" ">>, quad |-> QuadRotated],
              [token |-> <<"a">>, quad |-> QuadRotated],
              [token |-> <<" ", "b", " ">>, quad |-> QuadUnordered],
              [token |-> <<"c">>, quad |-> QuadFlat]}
\* Numbers of (token, quad) pairs a line's word-level detail may hold.
WordCounts == {0, 1, 2}
WordDetails == UNION {[1 .. n -> WordCases] : n \in WordCounts}

SeqsUpTo(S, n) == UNION {[1 .. k -> S] : k \in 0 .. n}

\* result, seen through what generate_ocr reads of it up front: whether the
\* list and its first element are non-empty, rec_texts, and the lengths of
\* text_word and text_word_region (0 when the key is absent, as it is
\* without return_word_box; the two lists are parallel when both are given).
ResultHeaders(texts, maxn, wb) ==
    {[kind |-> k, rec_texts |-> <<>>, wlen |-> 0, rlen |-> 0] : k \in {"nolist", "nodict"}}
    \cup
    {h \in [kind : {"data"}, rec_texts : SeqsUpTo(texts, maxn),
            wlen : 0 .. maxn, rlen : 0 .. maxn] :
        /\ h.wlen <= Len(h.rec_texts)
        /\ h.rlen \in {0, h.wlen}
        /\ ~wb => h.wlen = 0}
NoResult == [kind |-> "none", rec_texts |-> <<>>, wlen |-> 0, rlen |-> 0]

\* Line i of the result: rec_scores[i], rec_boxes[i], text_word[i] and
\* text_word_region[i] (the last two only where the lists reach line i).
\* The engine's lists are parallel: rec_scores and rec_boxes are as long as
\* rec_texts, and a line has as many quads as tokens.
LineInputs(text, scores, boxes, details) ==
    {[text |-> text, score |-> s, box |-> b,
      tokens |-> [k \in 1 .. Len(d) |-> d[k].token],
      quads |-> [k \in 1 .. Len(d) |-> d[k].quad]] :
        s \in scores, b \in boxes, d \in details}
NoLine == [text |-> <<>>, score |-> 0, box |-> <<0, 0, 0, 0>>,
           tokens |-> <<>>, quads |-> <<>>]

\* The orientation sub-model's output: nothing, or the top-ranked label with
\* its score in units of 1 / ScoreSteps.
LabelNames == {<<"0">>, <<"9", "0">>, <<"1", "8", "0">>, <<"2", "7", "0">>}
OrientResults == {<<>>} \cup
    {<<[label_names |-> <<l>>, scores |-> <<s>>]>> :
        l \in LabelNames, s \in 0 .. ScoreSteps}

\* Detection polygons, as vertex lists (x, y): top edges at 0, 45, 80, -45
\* and 180 degrees, a top edge one pixel wide, a vertical top edge, and a
\* polygon of a single vertex.
PolyFlat == <<<<0, 0>>, <<10, 0>>, <<10, 5>>, <<0, 5>>>>
PolyUp45 == <<<<0, 0>>, <<10, 10>>, <<10, 15>>, <<0, 5>>>>
PolySteep80 == <<<<0, 0>>, <<100, 567>>, <<100, 572>>, <<0, 5>>>>
PolyDown45 == <<<<0, 10>>, <<10, 0>>, <<10, 5>>, <<0, 15>>>>
PolyReversed == <<<<10, 0>>, <<0, 0>>, <<0, 5>>, <<10, 5>>>>
PolyUnit == <<<<0, 0>>, <<1, 1>>, <<1, 6>>, <<0, 5>>>>
PolyVertical == <<<<0, 0>>, <<0, 10>>, <<5, 10>>, <<5, 0>>>>
PolyPoint == <<<<3, 3>>>>
Polys == {PolyFlat, PolyUp45, PolySteep80, PolyDown45, PolyReversed, PolyUnit,
          PolyVertical, PolyPoint}

\* Nine flat top edges and one at 80 degrees, the steep one at place k.
OutlierLists == {[j \in 1 .. 10 |-> IF j = k THEN PolySteep80 ELSE PolyFlat] : k \in 1 .. 10}

\* The results get_deskew may see: an empty list, an empty first element,
\* or dt_polys (the empty list also where the key is absent).
DeskewResults(polys, maxn) ==
    {[kind |-> k, dt_polys |-> <<>>] : k \in {"nolist", "nodict"}}
    \cup {[kind |-> "data", dt_polys |-> d] : d \in SeqsUpTo(polys, maxn)}
OutlierResults == {[kind |-> "data", dt_polys |-> d] : d \in OutlierLists}

EmptyPage == [ocr_class |-> "PAGE", children |-> <<>>]
NoRet == [kind |-> "none"]
Ops == {"generate_ocr", "get_deskew", "get_orientation"}
Faults == {"KeyError", "RuntimeError", "Exception"}

\* What the cache-level specification lets the engine recognize: at most one
\* line, with or without one word box.
CoarseTexts == {<<"a">>}
CoarseBoxes == {<<1, 1, 4, 2>>}
CoarsePolys == {PolyUp45}
CoarseDetails == {<<>>, <<[token |-> <<"a">>, quad |-> QuadRotated]>>}

\* ---------------------------------------------------------------- Init
Init ==
    /\ jobs \in 1 .. MaxJobs
    /\ checked = FALSE
    /\ environ \in EnvValues
    /\ paddle_engine = NoEngine
    /\ paddle_lang = None
    /\ constructions = 0
    /\ pc = [w \in Workers |-> "idle"]
    /\ op = [w \in Workers |-> None]
    /\ languages = [w \in Workers |-> <<>>]
    /\ engine = [w \in Workers |-> NoEngine]
    /\ saved = [w \in Workers |-> None]
    /\ stage = [w \in Workers |-> None]
    /\ calls = [w \in Workers |-> <<>>]
    /\ nreset = [w \in Workers |-> 0]
    /\ nacquire = [w \in Workers |-> 0]
    /\ ncreate = [w \in Workers |-> 0]
    /\ exc = [w \in Workers |-> None]
    /\ result = [w \in Workers |-> NoResult]
    /\ idx = [w \in Workers |-> 0]
    /\ cur = [w \in Workers |-> NoLine]
    /\ page = [w \in Workers |-> EmptyPage]
    /\ text_parts = [w \in Workers |-> <<>>]
    /\ attached = [w \in Workers |-> <<>>]
    /\ ret = [w \in Workers |-> NoRet]

\* ------------------------------------------------------------- __init__.py
\* The host runs the check_options hook once, before it processes any page.
CheckOptions ==
    /\ ~checked
    /\ jobs' = check_options(jobs)
    /\ checked' = TRUE
    /\ UNCHANGED <<environ, cacheVars, workerVars>>

\* The host hands a page operation to an idle worker, keeping at most
\* options.jobs workers busy.
Dispatch(w) ==
    /\ checked
    /\ pc[w] = "idle"
    /\ Cardinality({v \in Workers : pc[v] # "idle"}) < jobs
    /\ \E o \in Ops, l \in LangOptions :
          /\ op' = [op EXCEPT ![w] = o]
          /\ languages' = [languages EXCEPT ![w] = l]
          /\ pc' = [pc EXCEPT ![w] = IF o = "get_orientation" THEN "classify" ELSE "acquire"]
          /\ stage' = [stage EXCEPT ![w] = IF o = "generate_ocr" THEN "first" ELSE "plain"]
    /\ UNCHANGED <<hostVars, environ, cacheVars, engine, saved, calls, countVars,
                   exc, asmVars, ret>>

\* The host takes the outcome of a finished call; the worker's locals die.
Collect(w) ==
    /\ pc[w] \in {"returned", "raised"}
    /\ pc' = [pc EXCEPT ![w] = "idle"]
    /\ op' = [op EXCEPT ![w] = None]
    /\ languages' = [languages EXCEPT ![w] = <<>>]
    /\ engine' = [engine EXCEPT ![w] = NoEngine]
    /\ saved' = [saved EXCEPT ![w] = None]
    /\ stage' = [stage EXCEPT ![w] = None]
    /\ calls' = [calls EXCEPT ![w] = <<>>]
    /\ nreset' = [nreset EXCEPT ![w] = 0]
    /\ nacquire' = [nacquire EXCEPT ![w] = 0]
    /\ ncreate' = [ncreate EXCEPT ![w] = 0]
    /\ exc' = [exc EXCEPT ![w] = None]
    /\ result' = [result EXCEPT ![w] = NoResult]
    /\ idx' = [idx EXCEPT ![w] = 0]
    /\ cur' = [cur EXCEPT ![w] = NoLine]
    /\ page' = [page EXCEPT ![w] = EmptyPage]
    /\ text_parts' = [text_parts EXCEPT ![w] = <<>>]
    /\ attached' = [attached EXCEPT ![w] = <<>>]
    /\ ret' = [ret EXCEPT ![w] = NoRet]
    /\ UNCHANGED <<hostVars, environ, cacheVars>>

\* --------------------------------------------------------------- engine.py
\* return_word_box of the predict call each stage makes: True at lines 179
\* and 189, absent at line 182 and in get_deskew (line 123).
word_box_flag(st) == st \in {"first", "retry"}

\* engine.predict(...) is entered on instance e.
Invoked(w, e) ==
    Append(calls[w], [eng |-> e, wb |-> word_box_flag(stage[w]), out |-> "pending"])

\* The predict call in progress ends with outcome o.
Ended(w, o) == [calls[w] EXCEPT ![Len(calls[w])].out = o]

\* _get_paddle_engine, lines 53-56: the cached engine matches; the caller goes
\* on to its predict call.
GetEngineHit(w) ==
    /\ pc[w] = "acquire"
    /\ cache_hit(paddle_engine, paddle_lang, requested_lang(languages[w]))
    /\ engine' = [engine EXCEPT ![w] = paddle_engine]
    /\ nacquire' = [nacquire EXCEPT ![w] = @ + 1]
    /\ calls' = [calls EXCEPT ![w] = Invoked(w, paddle_engine)]
    /\ pc' = [pc EXCEPT ![w] = "predict"]
    /\ UNCHANGED <<hostVars, environ, cacheVars, op, languages, saved, stage,
                   nreset, ncreate, exc, asmVars, ret>>

\* _get_paddle_engine line 58 into _create_paddle_engine lines 32-36:
\* OMP_THREAD_LIMIT is popped and the PaddleOCR constructor is entered.
GetEngineMiss(w) ==
    /\ pc[w] = "acquire"
    /\ ~cache_hit(paddle_engine, paddle_lang, requested_lang(languages[w]))
    /\ constructions < MaxEngines
    /\ saved' = [saved EXCEPT ![w] = environ]
    /\ environ' = None
    /\ constructions' = constructions + 1
    /\ nacquire' = [nacquire EXCEPT ![w] = @ + 1]
    /\ ncreate' = [ncreate EXCEPT ![w] = @ + 1]
    /\ pc' = [pc EXCEPT ![w] = "create"]
    /\ UNCHANGED <<hostVars, paddle_engine, paddle_lang, op, languages, engine,
                   stage, calls, nreset, exc, asmVars, ret>>

\* The constructor returns: lines 43-46, then lines 58-61 of
\* _get_paddle_engine; the caller goes on to its predict call.
CreateReturn(w) ==
    /\ pc[w] = "create"
    /\ LET lang == requested_lang(languages[w])
           e == [id |-> constructions, lang |-> lang]
       IN  /\ environ' = IF saved[w] # None THEN saved[w] ELSE environ
           /\ paddle_engine' = e
           /\ paddle_lang' = lang
           /\ engine' = [engine EXCEPT ![w] = e]
           /\ calls' = [calls EXCEPT ![w] = Invoked(w, e)]
    /\ pc' = [pc EXCEPT ![w] = "predict"]
    /\ UNCHANGED <<hostVars, constructions, op, languages, saved, stage, countVars,
                   exc, asmVars, ret>>

\* The constructor raises: nothing after line 36 runs, in
\* _create_paddle_engine, in _get_paddle_engine or in their caller.
CreateRaise(w) ==
    /\ pc[w] = "create"
    /\ pc' = [pc EXCEPT ![w] = "raised"]
    /\ exc' = [exc EXCEPT ![w] = "ConstructError"]
    /\ UNCHANGED <<hostVars, environ, cacheVars, op, languages, engine, saved,
                   stage, calls, countVars, asmVars, ret>>

\* _reset_paddle_engine
reset_engine(pe) == NoEngine
\* (variant: the language is left in the cache)
reset_lang_kept(pl) == pl
reset_lang(pl) == None

\* generate_ocr lines 179-202: a predict call of generate_ocr returns result.
\* Lines 191-192 and 201-202 return (page, "") at once.
PredictReturnOcr(w, headers) ==
    /\ pc[w] = "predict"
    /\ op[w] = "generate_ocr"
    /\ calls' = [calls EXCEPT ![w] = Ended(w, "ok")]
    /\ \E h \in headers :
          /\ result' = [result EXCEPT ![w] = h]
          /\ IF h.kind # "data" \/ h.rec_texts = <<>>
             THEN /\ pc' = [pc EXCEPT ![w] = "returned"]
                  /\ ret' = [ret EXCEPT ![w] =
                               [kind |-> "ocr", page |-> page[w], text |-> <<>>]]
             ELSE /\ pc' = [pc EXCEPT ![w] = "assemble"]
                  /\ ret' = ret
    /\ UNCHANGED <<hostVars, environ, cacheVars, op, languages, engine, saved,
                   stage, countVars, exc, idx, cur, page, text_parts, attached>>

\* get_deskew lines 123-151: predict returns and the angle is computed from
\* the result's dt_polys.
PredictReturnDeskew(w, results) ==
    /\ pc[w] = "predict"
    /\ op[w] = "get_deskew"
    /\ calls' = [calls EXCEPT ![w] = Ended(w, "ok")]
    /\ pc' = [pc EXCEPT ![w] = "returned"]
    /\ \E r \in results :
          /\ result' = [result EXCEPT ![w] = r]
          /\ ret' = [ret EXCEPT ![w] = [kind |-> "deskew", angle |-> deskew_of(r)]]
    /\ UNCHANGED <<hostVars, environ, cacheVars, op, languages, engine, saved,
                   stage, countVars, exc, idx, cur, page, text_parts, attached>>

\* A predict call raises. The data-shape fault (KeyError) comes from the
\* word-box path of the engine (line 181), so only from calls that pass
\* return_word_box=True. In generate_ocr the first predict is inside the try
\* of lines 178-189: KeyError goes on to the plain predict of line 182 on the
\* same local engine; RuntimeError resets the cache (line 187) and
\* re-acquires (line 188) before the predict of line 189. Everything else,
\* and every fault of a later predict or of get_deskew, propagates.
PredictRaise(w) ==
    /\ pc[w] = "predict"
    /\ \E kind \in Faults :
          /\ kind = "KeyError" => calls[w][Len(calls[w])].wb
          /\ IF op[w] = "generate_ocr" /\ caught(stage[w], kind)
             THEN /\ paddle_engine' = IF invalidates(kind)
                                      THEN reset_engine(paddle_engine) ELSE paddle_engine
                  /\ paddle_lang' = IF invalidates(kind)
                                    THEN reset_lang(paddle_lang) ELSE paddle_lang
                  /\ nreset' = [nreset EXCEPT ![w] = IF invalidates(kind) THEN @ + 1 ELSE @]
                  /\ IF kind = "RuntimeError"
                     THEN /\ stage' = [stage EXCEPT ![w] = "retry"]
                          /\ pc' = [pc EXCEPT ![w] = "acquire"]
                          /\ calls' = [calls EXCEPT ![w] = Ended(w, kind)]
                     ELSE /\ stage' = [stage EXCEPT ![w] = "plain"]
                          /\ pc' = pc
                          /\ calls' = [calls EXCEPT ![w] =
                                Append(Ended(w, kind),
                                       [eng |-> engine[w], wb |-> FALSE, out |-> "pending"])]
                  /\ exc' = exc
             ELSE /\ pc' = [pc EXCEPT ![w] = "raised"]
                  /\ exc' = [exc EXCEPT ![w] = kind]
                  /\ calls' = [calls EXCEPT ![w] = Ended(w, kind)]
                  /\ UNCHANGED <<paddle_engine, paddle_lang, nreset, stage>>
    /\ UNCHANGED <<hostVars, environ, constructions, op, languages, engine, saved,
                   nacquire, ncreate, asmVars, ret>>

\* generate_ocr lines 207-246: one iteration of the loop over
\* zip(rec_texts, rec_scores, rec_boxes), on line idx + 1 of the result. The
\* engine's data for the line is drawn as far as the iteration looks at it:
\* nothing past a blank text (line 208), no word-level detail past a
\* degenerate box (line 212) or where the lists do not reach the line.
ProcessLine(w, scores, boxes, details) ==
    /\ pc[w] = "assemble"
    /\ idx[w] < Len(result[w].rec_texts)
    /\ LET i == idx[w] + 1
           text == result[w].rec_texts[i]
           hwb == has_word_boxes(result[w].wlen, result[w].rlen)
           blank == strip(text) = <<>>
           given(b) == IF hwb /\ i <= result[w].wlen /\ line_bbox_of(b) # NoBBox
                       THEN details ELSE {<<>>}
           inputs == IF blank THEN {[NoLine EXCEPT !.text = text]}
                     ELSE UNION {LineInputs(text, scores, {b}, given(b)) : b \in boxes}
       IN  \E ln \in inputs :
             LET line_bbox == line_bbox_of(ln.box)
                 children == line_children(hwb, i, result[w].wlen, text, ln.score,
                                           line_bbox, ln.tokens, ln.quads)
             IN  /\ cur' = [cur EXCEPT ![w] = ln]
                 /\ idx' = [idx EXCEPT ![w] = i]
                 /\ IF blank \/ line_bbox = NoBBox \/ ~attach(children)
                    THEN UNCHANGED <<page, text_parts, attached>>
                    ELSE /\ page' = [page EXCEPT ![w].children =
                                 Append(@, [ocr_class |-> "LINE", bbox |-> line_bbox,
                                            children |-> children])]
                         /\ text_parts' = [text_parts EXCEPT ![w] = Append(@, text)]
                         /\ attached' = [attached EXCEPT ![w] = Append(@, i)]
    /\ UNCHANGED <<hostVars, environ, cacheVars, pc, op, languages, engine, saved,
                   stage, calls, countVars, exc, result, ret>>

\* generate_ocr lines 248-249
AssembleDone(w) ==
    /\ pc[w] = "assemble"
    /\ idx[w] = Len(result[w].rec_texts)
    /\ ret' = [ret EXCEPT ![w] =
                 [kind |-> "ocr", page |-> page[w], text |-> join_lines(text_parts[w])]]
    /\ pc' = [pc EXCEPT ![w] = "returned"]
    /\ UNCHANGED <<hostVars, environ, cacheVars, op, languages, engine, saved,
                   stage, calls, countVars, exc, asmVars>>

\* get_orientation lines 110-118: the classifier returns.
angle_of(label) == parse_int(label)

ClassifyReturn(w) ==
    /\ pc[w] = "classify"
    /\ \E r \in OrientResults :
          /\ result' = [result EXCEPT ![w] = r]
          /\ ret' = [ret EXCEPT ![w] =
                IF r = <<>>
                THEN [kind |-> "orientation", angle |-> 0, confidence |-> 0]
                ELSE [kind |-> "orientation",
                      angle |-> angle_of(r[1].label_names[1]),
                      confidence |-> confidence_of(r[1].scores[1])]]
    /\ pc' = [pc EXCEPT ![w] = "returned"]
    /\ UNCHANGED <<hostVars, environ, cacheVars, op, languages, engine, saved,
                   stage, calls, countVars, exc, idx, cur, page, text_parts, attached>>

\* The classifier raises; get_orientation has no handler.
ClassifyRaise(w) ==
    /\ pc[w] = "classify"
    /\ pc' = [pc EXCEPT ![w] = "raised"]
    /\ exc' = [exc EXCEPT ![w] = "Exception"]
    /\ UNCHANGED <<hostVars, environ, cacheVars, op, languages, engine, saved,
                   stage, calls, countVars, asmVars, ret>>

\* ------------------------------------------------------- specifications
\* The plugin under the host: every operation, every fault of the engine.
Next ==
    \/ CheckOptions
    \/ \E w \in Workers : Dispatch(w)
    \/ \E w \in Workers : Collect(w)
    \/ \E w \in Workers : GetEngineHit(w)
    \/ \E w \in Workers : GetEngineMiss(w)
    \/ \E w \in Workers : CreateReturn(w)
    \/ \E w \in Workers : CreateRaise(w)
    \/ \E w \in Workers : PredictReturnOcr(w, ResultHeaders(CoarseTexts, 1, word_box_flag(stage[w])))
    \/ \E w \in Workers : PredictReturnDeskew(w, DeskewResults(CoarsePolys, 1))
    \/ \E w \in Workers : PredictRaise(w)
    \/ \E w \in Workers : ProcessLine(w, {ScoreSteps}, CoarseBoxes, CoarseDetails)
    \/ \E w \in Workers : AssembleDone(w)
    \/ \E w \in Workers : ClassifyReturn(w)
    \/ \E w \in Workers : ClassifyRaise(w)

Spec == Init /\ [][Next]_vars

\* The assembly of the tree, over every result the engine may return: worker 1
\* is in a predict call of generate_ocr on the cached engine, either the first
\* one or the plain one that follows a KeyError.
InitOcr ==
    \E st \in {"first", "plain"} :
      LET e == [id |-> 1, lang |-> "en"]
          first == [eng |-> e, wb |-> TRUE,
                    out |-> IF st = "first" THEN "pending" ELSE "KeyError"]
          plain == [eng |-> e, wb |-> FALSE, out |-> "pending"]
      IN
      /\ jobs = 1
      /\ checked = TRUE
      /\ environ = None
      /\ paddle_engine = e
      /\ paddle_lang = "en"
      /\ constructions = 1
      /\ pc = [w \in Workers |-> IF w = 1 THEN "predict" ELSE "idle"]
      /\ op = [w \in Workers |-> IF w = 1 THEN "generate_ocr" ELSE None]
      /\ languages = [w \in Workers |-> <<>>]
      /\ engine = [w \in Workers |-> IF w = 1 THEN e ELSE NoEngine]
      /\ saved = [w \in Workers |-> None]
      /\ stage = [w \in Workers |-> IF w = 1 THEN st ELSE None]
      /\ calls = [w \in Workers |-> IF w # 1 THEN <<>>
                                     ELSE IF st = "first" THEN <<first>>
                                     ELSE <<first, plain>>]
      /\ nreset = [w \in Workers |-> 0]
      /\ nacquire = [w \in Workers |-> IF w = 1 THEN 1 ELSE 0]
      /\ ncreate = [w \in Workers |-> IF w = 1 THEN 1 ELSE 0]
      /\ exc = [w \in Workers |-> None]
      /\ result = [w \in Workers |-> NoResult]
      /\ idx = [w \in Workers |-> 0]
      /\ cur = [w \in Workers |-> NoLine]
      /\ page = [w \in Workers |-> EmptyPage]
      /\ text_parts = [w \in Workers |-> <<>>]
      /\ attached = [w \in Workers |-> <<>>]
      /\ ret = [w \in Workers |-> NoRet]

NextOcr ==
    \/ PredictReturnOcr(1, ResultHeaders(Texts, MaxLines, word_box_flag(stage[1])))
    \/ ProcessLine(1, Scores, Boxes, WordDetails)
    \/ AssembleDone(1)

SpecOcr == InitOcr /\ [][NextOcr]_vars

\* The skew estimate, over every list of detection polygons: worker 1 is in
\* the predict call of get_deskew on the cached engine.
InitSkew ==
    LET e == [id |-> 1, lang |-> "en"]
    IN
    /\ jobs = 1
    /\ checked = TRUE
    /\ environ = None
    /\ paddle_engine = e
    /\ paddle_lang = "en"
    /\ constructions = 1
    /\ pc = [w \in Workers |-> IF w = 1 THEN "predict" ELSE "idle"]
    /\ op = [w \in Workers |-> IF w = 1 THEN "get_deskew" ELSE None]
    /\ languages = [w \in Workers |-> <<>>]
    /\ engine = [w \in Workers |-> IF w = 1 THEN e ELSE NoEngine]
    /\ saved = [w \in Workers |-> None]
    /\ stage = [w \in Workers |-> IF w = 1 THEN "plain" ELSE None]
    /\ calls = [w \in Workers |-> IF w # 1 THEN <<>>
                                   ELSE <<[eng |-> e, wb |-> FALSE, out |-> "pending"]>>]
    /\ nreset = [w \in Workers |-> 0]
    /\ nacquire = [w \in Workers |-> IF w = 1 THEN 1 ELSE 0]
    /\ ncreate = [w \in Workers |-> IF w = 1 THEN 1 ELSE 0]
    /\ exc = [w \in Workers |-> None]
    /\ result = [w \in Workers |-> NoResult]
    /\ idx = [w \in Workers |-> 0]
    /\ cur = [w \in Workers |-> NoLine]
    /\ page = [w \in Workers |-> EmptyPage]
    /\ text_parts = [w \in Workers |-> <<>>]
    /\ attached = [w \in Workers |-> <<>>]
    /\ ret = [w \in Workers |-> NoRet]

NextSkew ==
    \/ PredictReturnDeskew(1, DeskewResults(Polys, MaxPolys) \cup OutlierResults)
    \/ Collect(1)

SpecSkew == InitSkew /\ [][NextSkew]_vars

\* ================================================================ claims
Ocr(w) == op[w] = "generate_ocr"
Ended_(w) == pc[w] \in {"returned", "raised"}
\* The first predict of w's generate_ocr call raised this fault.
FirstFault(w, kind) == Ocr(w) /\ Len(calls[w]) >= 1 /\ calls[w][1].out = kind

\* C1 as stated: once the first word-box predict of generate_ocr has raised
\* RuntimeError, the call ends after exactly one invalidation, exactly one
\* re-acquisition and exactly one more predict with word boxes, and a fault
\* of that retry is the fault the call ends with.
C1_RetryExactlyOnce ==
    \A w \in Workers :
        (FirstFault(w, "RuntimeError") /\ Ended_(w)) =>
            /\ nreset[w] = 1
            /\ nacquire[w] = 2
            /\ Len(calls[w]) = 2
            /\ calls[w][2].wb
            /\ calls[w][2].out # "ok" => (pc[w] = "raised" /\ exc[w] = calls[w][2].out)

\* C1 amended: after a RuntimeError of the first predict the cache is
\* invalidated exactly once, the engine is re-acquired exactly once, and the
\* word-box predict is retried at most once more, on the re-acquired
\* instance: exactly once when the re-acquisition returns, not at all when
\* its constructor raises (that exception ends the call). A fault of the
\* retry ends the call with that fault, with no further retry or rebuild.
C1_RetryOnceIfReacquired ==
    \A w \in Workers :
        FirstFault(w, "RuntimeError") =>
            /\ nreset[w] = 1
            /\ nacquire[w] <= 2
            /\ ncreate[w] <= 2
            /\ Len(calls[w]) <= 2
            /\ Len(calls[w]) = 2 =>
                  /\ calls[w][2].wb
                  /\ nacquire[w] = 2
                  /\ calls[w][2].eng = engine[w]
                  /\ calls[w][2].eng # calls[w][1].eng
            /\ pc[w] = "returned" => (Len(calls[w]) = 2 /\ calls[w][2].out = "ok")
            /\ pc[w] = "raised" =>
                  /\ nacquire[w] = 2
                  /\ \/ Len(calls[w]) = 2 /\ exc[w] \in Faults /\ exc[w] = calls[w][2].out
                     \/ Len(calls[w]) = 1 /\ exc[w] = "ConstructError"

\* The retry after the rebuild failed too, and its fault ended the call.
C1_Witness ==
    \E w \in Workers :
        /\ FirstFault(w, "RuntimeError")
        /\ pc[w] = "raised"
        /\ Len(calls[w]) = 2
        /\ calls[w][2].out = "RuntimeError"
        /\ exc[w] = "RuntimeError"

\* C2: a KeyError of a word-box predict of generate_ocr is always followed by
\* a predict without word boxes, and generate_ocr never ends with KeyError.
C2_KeyErrorNeverSurfaces ==
    \A w \in Workers :
        Ocr(w) =>
            /\ pc[w] = "raised" => exc[w] # "KeyError"
            /\ \A k \in 1 .. Len(calls[w]) :
                  (calls[w][k].wb /\ calls[w][k].out = "KeyError") =>
                      (Len(calls[w]) > k /\ ~calls[w][k + 1].wb)

\* C3: whenever _create_paddle_engine has finished, by returning or by
\* raising, OMP_THREAD_LIMIT has the value it had when the call began.
C3_EnvRestoredOnEveryExit ==
    \A w \in Workers :
        (ncreate[w] > 0 /\ pc[w] # "create") => environ = saved[w]

\* C4: an acquire call constructs an engine exactly when nothing is cached or
\* the cached language differs from the translated requested one. On a hit it
\* hands out the cached instance and leaves the cache as it is; on a miss it
\* makes exactly one constructor call, whose instance becomes the cache.
C4_ConstructsExactlyOnMiss ==
    [][\A w \in Workers :
         LET lang == IF languages[w] = <<>> THEN "en"
                     ELSE IF languages[w][1] = "eng" THEN "en"
                     ELSE IF languages[w][1] = "kor" THEN "korean"
                     ELSE languages[w][1]
             miss == paddle_engine = NoEngine \/ paddle_lang # lang
         IN  /\ (pc[w] = "acquire" /\ pc'[w] # "acquire") =>
                   IF miss
                   THEN /\ pc'[w] = "create"
                        /\ constructions' = constructions + 1
                   ELSE /\ pc'[w] = "predict"
                        /\ constructions' = constructions
                        /\ engine'[w] = paddle_engine
                        /\ paddle_engine' = paddle_engine
                        /\ paddle_lang' = paddle_lang
             /\ (pc[w] = "create" /\ pc'[w] = "predict") =>
                   /\ constructions' = constructions
                   /\ paddle_lang' = lang
                   /\ paddle_engine'.lang = lang
                   /\ paddle_engine' # paddle_engine
                   /\ engine'[w] = paddle_engine'
    ]_vars

\* A second acquire of the cached language got the one instance ever built.
C4_Witness ==
    \E w \in Workers :
        /\ pc[w] = "predict"
        /\ nacquire[w] = 1
        /\ ncreate[w] = 0
        /\ constructions = 1
        /\ engine[w] = paddle_engine
        /\ languages[w] = <<"en">>

\* C5: once check_options has run options.jobs is 1, and at most one worker is
\* inside engine.predict at any time.
C5_OnePredictAtATime ==
    /\ checked => jobs = 1
    /\ Cardinality({w \in Workers : pc[w] = "predict"}) <= 1

\* check_options has run and a predict call is executing.
C5_Witness ==
    /\ checked
    /\ jobs = 1
    /\ \E w \in Workers : pc[w] = "predict" /\ calls[w][Len(calls[w])].out = "pending"

\* C6: after a KeyError of the first predict of generate_ocr nothing was
\* invalidated, the cache still holds the instance and language of that first
\* predict, and the one retry is a predict without word boxes on that same
\* instance.
C6_KeyErrorKeepsCache ==
    \A w \in Workers :
        FirstFault(w, "KeyError") =>
            /\ nreset[w] = 0
            /\ nacquire[w] = 1
            /\ Len(calls[w]) = 2
            /\ ~calls[w][2].wb
            /\ calls[w][2].eng = calls[w][1].eng
            /\ paddle_engine = calls[w][1].eng
            /\ paddle_lang = calls[w][1].eng.lang

\* The plain retry after the KeyError returned and the call went on.
C6_Witness ==
    \E w \in Workers :
        /\ FirstFault(w, "KeyError")
        /\ Len(calls[w]) = 2
        /\ calls[w][2].out = "ok"
        /\ pc[w] = "returned"

\* ------------------------------------------------ the tree (C7, C8, C9)
\* Restated from the texts and coordinates, not through the model's
\* operators: blank text, proper box, the box enclosing a quad, trimming.
AllSpaces(t) == \A k \in 1 .. Len(t) : t[k] = " "
ProperBox(b) == b.right > b.left /\ b.bottom > b.top
QuadProper(q) ==
    /\ \E j, k \in 1 .. Len(q) : q[j][1] < q[k][1]
    /\ \E j, k \in 1 .. Len(q) : q[j][2] < q[k][2]
Encloses(q, b) ==
    /\ \A k \in 1 .. Len(q) :
          b.left <= q[k][1] /\ q[k][1] <= b.right /\ b.top <= q[k][2] /\ q[k][2] <= b.bottom
    /\ \E k \in 1 .. Len(q) : q[k][1] = b.left
    /\ \E k \in 1 .. Len(q) : q[k][1] = b.right
    /\ \E k \in 1 .. Len(q) : q[k][2] = b.top
    /\ \E k \in 1 .. Len(q) : q[k][2] = b.bottom
IsTrimOf(u, t) ==
    /\ u # <<>> => (u[1] # " " /\ u[Len(u)] # " ")
    /\ \E a \in 0 .. Len(t) :
          /\ a + Len(u) <= Len(t)
          /\ SubSeq(t, a + 1, a + Len(u)) = u
          /\ AllSpaces(SubSeq(t, 1, a))
          /\ AllSpaces(SubSeq(t, a + Len(u) + 1, Len(t)))
RECURSIVE IsJoin(_, _)
IsJoin(t, parts) ==
    IF parts = <<>> THEN t = <<>>
    ELSE IF Len(parts) = 1 THEN t = parts[1]
    ELSE LET n == Len(parts[1])
         IN  /\ Len(t) > n
             /\ SubSeq(t, 1, n) = parts[1]
             /\ t[n + 1] = "\n"
             /\ IsJoin(SubSeq(t, n + 2, Len(t)), Tail(parts))

\* The line the loop processed last: it has non-blank text and a proper box.
LineOk(w) ==
    /\ idx[w] >= 1
    /\ ~AllSpaces(cur[w].text)
    /\ cur[w].box[3] > cur[w].box[1]
    /\ cur[w].box[4] > cur[w].box[2]
\* Word-level detail is present and non-empty for that line.
DetailUsed(w) ==
    /\ result[w].wlen > 0
    /\ result[w].rlen > 0
    /\ idx[w] <= result[w].wlen
    /\ cur[w].tokens # <<>>
\* Its (token, quad) pairs with a non-blank token and a proper quad.
ValidPairs(w) ==
    {k \in 1 .. Len(cur[w].tokens) :
        /\ k <= Len(cur[w].quads)
        /\ ~AllSpaces(cur[w].tokens[k])
        /\ QuadProper(cur[w].quads[k])}
Kth(S, j) == CHOOSE k \in S : Cardinality({m \in S : m < k}) = j - 1
\* That line was attached: it is the last LINE of the page.
LastAttached(w) == attached[w] # <<>> /\ attached[w][Len(attached[w])] = idx[w]
LastLine(w) == page[w].children[Len(page[w].children)]

\* C7: every LINE of the page has at least one WORD; the attached lines are
\* lines of the result in input order, none of them blank, and text_parts are
\* their texts; the line processed last is attached exactly when it yields at
\* least one WORD; the returned text is the newline-join of the attached
\* lines' full texts.
C7_AttachedIffHasWord ==
    \A w \in Workers :
        LET kids == page[w].children
            texts == result[w].rec_texts
        IN  /\ Len(kids) = Len(attached[w])
            /\ Len(text_parts[w]) = Len(attached[w])
            /\ \A k \in 1 .. Len(kids) :
                  /\ kids[k].ocr_class = "LINE"
                  /\ Len(kids[k].children) >= 1
                  /\ \A j \in 1 .. Len(kids[k].children) :
                        kids[k].children[j].ocr_class = "WORD"
            /\ \A k \in 1 .. Len(attached[w]) :
                  /\ attached[w][k] \in 1 .. idx[w]
                  /\ ~AllSpaces(texts[attached[w][k]])
                  /\ text_parts[w][k] = texts[attached[w][k]]
                  /\ \A j \in 1 .. k - 1 : attached[w][j] < attached[w][k]
            /\ idx[w] >= 1 =>
                  (LastAttached(w) <=>
                      (LineOk(w) /\ (DetailUsed(w) => ValidPairs(w) # {})))
            /\ (pc[w] = "returned" /\ Ocr(w)) =>
                  /\ ret[w].page = page[w]
                  /\ IsJoin(ret[w].text, [k \in 1 .. Len(attached[w]) |-> texts[attached[w][k]]])

\* Of two recognized lines the first is on the page and in the text; the
\* second, whose word-level detail holds no valid word, is not.
C7_Witness ==
    /\ pc[1] = "returned"
    /\ Len(result[1].rec_texts) = 2
    /\ attached[1] = <<1>>
    /\ LineOk(1)
    /\ DetailUsed(1)
    /\ ValidPairs(1) = {}
    /\ ret[1].text = result[1].rec_texts[1]
    /\ Len(ret[1].page.children) = 1

\* C8: both converters give None exactly for the boxes and quads of zero or
\* negative width or height and a proper box otherwise (for a quad, the box
\* enclosing it); every LINE and WORD box of the page is proper; a line with
\* a degenerate box is left out, a degenerate quad costs only its own word,
\* and the call does not raise.
C8_DegenerateGeometryDropped ==
    \A w \in Workers :
        /\ idx[w] >= 1 => pc[w] \in {"assemble", "returned"}
        /\ \A k \in 1 .. Len(page[w].children) :
              LET l == page[w].children[k]
              IN  /\ ProperBox(l.bbox)
                  /\ \A j \in 1 .. Len(l.children) : ProperBox(l.children[j].bbox)
        /\ (idx[w] >= 1 /\ ~AllSpaces(cur[w].text)) =>
              LET box == cur[w].box
                  lb == line_bbox_of(box)
              IN  /\ lb = NoBBox <=> (box[3] <= box[1] \/ box[4] <= box[2])
                  /\ lb # NoBBox =>
                        (ProperBox(lb) /\ lb.left = box[1] /\ lb.top = box[2]
                         /\ lb.right = box[3] /\ lb.bottom = box[4])
                  /\ lb = NoBBox => ~LastAttached(w)
                  /\ \A k \in 1 .. Len(cur[w].quads) :
                        LET q == cur[w].quads[k]
                            b == quad_to_bbox(q)
                        IN  /\ b = NoBBox <=> ~QuadProper(q)
                            /\ b # NoBBox => (ProperBox(b) /\ Encloses(q, b))
        /\ (LineOk(w) /\ DetailUsed(w) /\ LastAttached(w)) =>
              Len(LastLine(w).children) = Cardinality(ValidPairs(w))

\* A word on a degenerate quad was dropped from a line that keeps its other
\* word, after an earlier line was attached: the page holds both lines.
C8_Witness ==
    /\ pc[1] = "returned"
    /\ attached[1] = <<1, 2>>
    /\ LineOk(1)
    /\ DetailUsed(1)
    /\ Len(cur[1].quads) = 2
    /\ \E k \in 1 .. 2 : ~QuadProper(cur[1].quads[k])
    /\ Len(LastLine(1).children) = 1
    /\ Len(ret[1].page.children) = 2

\* C9: for the line processed last, when it has non-blank text and a proper
\* box: with word-level detail present and non-empty for it, its LINE has one
\* WORD per valid (token, quad) pair, in order, with the trimmed token as
\* text and the box enclosing the quad (and there is no LINE when no pair is
\* valid); otherwise its LINE has exactly one WORD with the line box and the
\* full line text. Every WORD carries the line's score.
C9_WordsOfLine ==
    \A w \in Workers :
        LineOk(w) =>
            IF DetailUsed(w)
            THEN /\ LastAttached(w) <=> ValidPairs(w) # {}
                 /\ LastAttached(w) =>
                       LET ws == LastLine(w).children
                       IN  /\ Len(ws) = Cardinality(ValidPairs(w))
                           /\ \A j \in 1 .. Len(ws) :
                                 LET k == Kth(ValidPairs(w), j)
                                 IN  /\ ws[j].ocr_class = "WORD"
                                     /\ IsTrimOf(ws[j].text, cur[w].tokens[k])
                                     /\ Encloses(cur[w].quads[k], ws[j].bbox)
                                     /\ ws[j].confidence = cur[w].score
            ELSE /\ LastAttached(w)
                 /\ LastLine(w).bbox = [left |-> cur[w].box[1], top |-> cur[w].box[2],
                                        right |-> cur[w].box[3], bottom |-> cur[w].box[4]]
                 /\ LastLine(w).children =
                       <<[ocr_class |-> "WORD", bbox |-> LastLine(w).bbox,
                          text |-> cur[w].text, confidence |-> cur[w].score]>>

\* Two tokens with two proper quads gave two WORDs with the trimmed tokens,
\* both with the line's score.
C9_Witness ==
    /\ LineOk(1)
    /\ DetailUsed(1)
    /\ LastAttached(1)
    /\ cur[1].tokens = << <<"a">>, <<" ", "b", " ">> >>
    /\ cur[1].score = 1
    /\ Len(LastLine(1).children) = 2
    /\ LastLine(1).children[1].text = <<"a">>
    /\ LastLine(1).children[2].text = <<"b">>
    /\ LastLine(1).children[2].confidence = 1

\* ------------------------------------------------------ orientation (C10)
LabelDenotes(l, a) ==
    \/ l = <<"0">> /\ a = 0
    \/ l = <<"9", "0">> /\ a = 90
    \/ l = <<"1", "8", "0">> /\ a = 180
    \/ l = <<"2", "7", "0">> /\ a = 270

\* C10: get_orientation returns an angle among 0, 90, 180, 270, the one its
\* top label denotes, and a confidence of 15 times the top score, within 0
\* and 15 (scores and confidences in units of 1 / ScoreSteps); with no
\* result from the sub-model it returns angle 0 and confidence 0.
C10_OrientationRange ==
    \A w \in Workers :
        (op[w] = "get_orientation" /\ pc[w] = "returned") =>
            /\ ret[w].angle \in {0, 90, 180, 270}
            /\ ret[w].confidence >= 0
            /\ ret[w].confidence <= 15 * ScoreSteps
            /\ result[w] = <<>> => (ret[w].angle = 0 /\ ret[w].confidence = 0)
            /\ result[w] # <<>> =>
                  /\ LabelDenotes(result[w][1].label_names[1], ret[w].angle)
                  /\ ret[w].confidence = 15 * result[w][1].scores[1]

\* The sub-model is certain of 270 degrees: confidence 15.
C10_Witness ==
    \E w \in Workers :
        /\ op[w] = "get_orientation"
        /\ pc[w] = "returned"
        /\ result[w] # <<>>
        /\ result[w][1].scores[1] = ScoreSteps
        /\ ret[w].angle = 270
        /\ ret[w].confidence = 15 * ScoreSteps


\* ------------------------------------------------------------------ C11
\* A polygon has a qualifying top edge when it has two vertices or more and
\* the edge spans a pixel or more horizontally.
Qualifying(poly) == Len(poly) >= 2 /\ abs(poly[2][1] - poly[1][1]) >= 1

Deskewed(w) == op[w] = "get_deskew" /\ pc[w] = "returned"

\* C11: get_deskew returns 0 when the result, its first element or the
\* polygon list is empty or no polygon has a qualifying top edge; otherwise
\* it returns the median of the qualifying top-edge angles: the middle one in
\* ascending order for an odd count, the mean of the two middle ones for an
\* even count. Nine edges at 0 degrees and one at 80 degrees give 0 degrees.
C11_SkewIsMedian ==
    \A w \in Workers :
        Deskewed(w) =>
            LET polys == result[w].dt_polys
                Q == {i \in 1 .. Len(polys) : Qualifying(polys[i])}
                n == Cardinality(Q)
                ang(i) == atan2_degrees(polys[i][2][2] - polys[i][1][2],
                                        polys[i][2][1] - polys[i][1][1])
                \* x is the k-th of the angles in ascending order
                IsKth(x, k) == /\ Cardinality({i \in Q : ang(i) < x}) < k
                               /\ k <= Cardinality({i \in Q : ang(i) <= x})
                m == ret[w].angle
            IN  /\ ret[w].kind = "deskew"
                /\ (result[w].kind # "data" \/ n = 0) => m = HalfDeg(0)
                /\ (result[w].kind = "data" /\ n > 0 /\ n % 2 = 1) =>
                       IsKth(m, (n + 1) \div 2)
                /\ (result[w].kind = "data" /\ n > 0 /\ n % 2 = 0) =>
                       \E i, j \in Q : /\ IsKth(ang(i), n \div 2)
                                       /\ IsKth(ang(j), n \div 2 + 1)
                                       /\ m + m = ang(i) + ang(j)
                /\ polys \in OutlierLists => m = HalfDeg(0)

\* get_deskew returned 0 for one edge at 80 degrees followed by nine edges
\* at 0 degrees.
C11_Witness ==
    /\ Deskewed(1)
    /\ result[1].dt_polys \in OutlierLists
    /\ result[1].dt_polys[1] = PolySteep80
    /\ ret[1].angle = HalfDeg(0)


\* ------------------------------------------------------------------ C12
\* C12: whatever calls have run, returned or raised, the cache is either
\* empty in both fields or holds one engine and one language, the engine
\* being one that was constructed, and constructed for that language.
C12_CacheFieldsAgree ==
    /\ (paddle_engine = NoEngine) <=> (paddle_lang = None)
    /\ paddle_engine # NoEngine =>
          /\ paddle_engine.lang = paddle_lang
          /\ paddle_engine.id \in 1 .. constructions

\* A generate_ocr call invalidated the cache and the construction that
\* followed raised, leaving the cache empty in both fields.
C12_Witness ==
    \E w \in Workers :
        /\ Ocr(w)
        /\ pc[w] = "raised"
        /\ nreset[w] = 1
        /\ exc[w] = "ConstructError"
        /\ paddle_engine = NoEngine

\* ------------------------------------------------------------------ C13
\* One step of worker w inside generate_ocr, whichever way the pending
\* engine call ends.
OcrStep(w) ==
    \/ GetEngineHit(w)
    \/ GetEngineMiss(w)
    \/ CreateReturn(w)
    \/ CreateRaise(w)
    \/ PredictReturnOcr(w, ResultHeaders(CoarseTexts, 1, word_box_flag(stage[w])))
    \/ PredictRaise(w)
    \/ ProcessLine(w, {ScoreSteps}, CoarseBoxes, CoarseDetails)
    \/ AssembleDone(w)

\* What is left of a generate_ocr call: the handlers not yet used, the
\* position in the call, the lines not yet assembled.
Remaining(w) ==
    IF Ended_(w) THEN 0
    ELSE (IF stage[w] = "first" THEN 200 ELSE 100)
         + (CASE pc[w] = "acquire" -> 40
              [] pc[w] = "create" -> 30
              [] pc[w] = "predict" -> 20
              [] pc[w] = "assemble" -> 10 + (Len(result[w].rec_texts) - idx[w]))

Running(w) == Ocr(w) /\ pc[w] \in {"acquire", "create", "predict", "assemble"}

\* C13: a generate_ocr call makes at most two predict calls and constructs
\* at most two engines; while it has not ended it can take a step however
\* the pending engine call ends (the model stops constructing at MaxEngines
\* engines), and every step brings it nearer to its end, so it ends.
C13_BoundedCall ==
    /\ [](\A w \in Workers :
            Ocr(w) =>
               /\ Len(calls[w]) <= 2
               /\ ncreate[w] <= 2
               /\ (Running(w) /\ constructions < MaxEngines) => ENABLED OcrStep(w))
    /\ [][\A w \in Workers :
            (Running(w) /\ <<pc[w], stage[w], idx[w], calls[w]>>'
                             # <<pc[w], stage[w], idx[w], calls[w]>>)
               => /\ Ocr(w)'
                  /\ Ended_(w)' \/ Running(w)'
                  /\ Remaining(w)' < Remaining(w)]_vars

\* A generate_ocr call on a failing engine ended, raising, after two predict
\* calls and two constructions.
C13_Witness ==
    \E w \in Workers :
        /\ Ocr(w)
        /\ pc[w] = "raised"
        /\ exc[w] = "RuntimeError"
        /\ Len(calls[w]) = 2
        /\ ncreate[w] = 2

====
